---- MODULE Spec2Model ----
(***************************************************************************)
(* Model of the SMI2021 bootloader driver (src/kernel/smi2021_bl.c):       *)
(* the firmware catalog (available_fw, firmware[], firmwares), the probe   *)
(* and disconnect callbacks, the firmware selection and the chunked        *)
(* firmware upload over USB control transfers.                             *)
(***************************************************************************)
EXTENDS Integers, Sequences, FiniteSets

(* ------------------------------ bounds --------------------------------- *)

\* Largest number of whole 62-byte chunks in an image given to an upload.
MaxChunks == 3
\* Number of firmware images the loader hands out over a run.
MaxImages == 3
\* Pointer cells of memory modelled from &firmware[0] on: cells 0..2 are the
\* array firmware[], the cells after it are the memory behind the array.
MaxCell == 4

(* ------------------------- program constants --------------------------- *)

FIRMWARE_CHUNK_SIZE == 62
FIRMWARE_HEADER_SIZE == 2
\* ARRAY_SIZE(available_fw)
NumFw == 3
ENOENT == 2
ENODEV == 19
\* The readiness code the handshake expects, 0x0107.
ReadyCode == 263
\* NULL pointer of the firmware table.
NULL == 0

\* available_fw[i].id : 0x3c, 0x3e, 0x3f
FwId(i) == CASE i = 0 -> 60 [] i = 1 -> 62 [] OTHER -> 63

FwIndex == 0 .. (NumFw - 1)
Cells == 0 .. MaxCell
Handles == 1 .. MaxImages

\* Values of the module parameter firmware_version the operator may set:
\* unset (0), the three known identifiers, and an unknown one (0x40).
Preferences == {0, 60, 62, 63, 64}

\* Sizes of the images request_firmware returns during a probe: one chunk,
\* two chunks, and a size that is no multiple of the chunk size.
FirmwareSizes ==
    { FIRMWARE_CHUNK_SIZE, 2 * FIRMWARE_CHUNK_SIZE, FIRMWARE_CHUNK_SIZE + 1 }

\* Sizes of the image of a single upload: up to MaxChunks whole chunks, and
\* the sizes one byte beyond and one byte short of a multiple.
UploadSizes ==
    { FIRMWARE_CHUNK_SIZE * n + r :
        n \in 0 .. MaxChunks, r \in {0, 1, FIRMWARE_CHUNK_SIZE - 1} } \ {0}

\* Error codes request_firmware may report besides -ENOENT: -ENOMEM.
LoaderErrors == { -12 }
\* Error codes usb_control_msg may report: -ETIMEDOUT, -EPIPE.
UsbErrors == { -110, -32 }

\* Replies of the device to the handshake read: the bytes received into
\* &ack (0, 1 or 2 of them).
HandshakeReplies == { <<>>, <<1>>, <<1, 7>>, <<7, 1>>, <<1, 6>> }

VARIABLES
    firmware_version,   \* module parameter
    found,              \* available_fw[i].found
    firmware,           \* firmware[] and the cells behind it
    firmwares,          \* static int firmwares
    images,             \* firmware objects handed out by request_firmware
    pc,                 \* position of the running callback
    bound,              \* the interface is bound to the driver
    i,                  \* loop index of the probe
    fw,                 \* load_firmware: argument firmware
    ci,                 \* load_firmware: loop index i
    rc,                 \* rc of the running function
    chunk,              \* load_firmware: the buffer chunk
    caller,             \* who called load_firmware
    host_le,            \* byte order of the host
    log,                \* control transfers issued in the current attach
    loaded              \* image request_firmware returned per descriptor, this attach

vars == << firmware_version, found, firmware, firmwares, images, pc, bound, i,
           fw, ci, rc, chunk, caller, host_le, log, loaded >>

(* ------------------------------ helpers -------------------------------- *)

\* Byte k (from 0) of the data of firmware object h.
FwByte(h, k) == (37 * h + 11 * k) % 256

\* firmware->size of firmware object h.
FwSize(h) == images[h].size

\* firmware->data of firmware object h.
FwData(h) == [k \in 1 .. FwSize(h) |-> FwByte(h, k - 1)]

Swab16(x) == (x % 256) * 256 + (x \div 256)

\* __cpu_to_be16 and __cpu_to_le16 on the host's byte order.
cpu_to_be16(x) == IF host_le THEN Swab16(x) ELSE x
cpu_to_le16(x) == IF host_le THEN x ELSE Swab16(x)

\* The u16 ack (initially 0x0000) after the bytes of reply were received
\* into &ack.
AckAfter(reply) ==
    LET b0 == IF Len(reply) >= 1 THEN reply[1] ELSE 0
        b1 == IF Len(reply) >= 2 THEN reply[2] ELSE 0
    IN  IF host_le THEN b0 + 256 * b1 ELSE 256 * b0 + b1

\* The two bytes of the u16 x as they lie in memory at &x.
BytesOf(x) == IF host_le THEN << x % 256, x \div 256 >>
                         ELSE << x \div 256, x % 256 >>

\* A control transfer as handed to usb_control_msg, with what it returned.
Transfer(dir, value, data, result) ==
    [ dir |-> dir, request |-> 1, value |-> value, index |-> 0,
      data |-> data, rc |-> result ]

\* Variant of NextSlot: the cell at the count itself.
NextSlotAtCount == firmwares

\* Index of the cell request_firmware is given: &firmware[firmwares + 1].
NextSlot == firmwares + 1

\* Handle of the next firmware object request_firmware creates.
NewImage == CHOOSE h \in Handles :
                /\ images[h].st = "none"
                /\ \A g \in Handles : g < h => images[g].st # "none"

\* release_firmware(firmware[slot]) on the object table imgs.
Release(imgs, h) ==
    IF h = NULL THEN imgs
    ELSE [imgs EXCEPT ![h] =
            [ size |-> 0,
              st |-> IF imgs[h].st = "live" THEN "released" ELSE "corrupt" ]]

(* ------------------------------- Init ---------------------------------- *)

Init ==
    /\ firmware_version = 0
    /\ found = [j \in FwIndex |-> 0]
    /\ firmware = [c \in Cells |-> NULL]
    /\ firmwares = -1
    /\ images = [h \in Handles |-> [size |-> 0, st |-> "none"]]
    /\ pc = "idle"
    /\ bound = FALSE
    /\ i = 0
    /\ fw = NULL
    /\ ci = 0
    /\ rc = 0
    /\ chunk = << >>
    /\ caller = "none"
    /\ host_le \in BOOLEAN
    /\ log = << >>
    /\ loaded = [j \in FwIndex |-> NULL]

(* --------------------------- module parameter -------------------------- *)

\* The operator writes the module parameter firmware_version.
SetFirmwareVersion ==
    /\ pc = "idle"
    /\ \E v \in Preferences \ {firmware_version} : firmware_version' = v
    /\ UNCHANGED << found, firmware, firmwares, images, pc, bound, i, fw, ci,
                    rc, chunk, caller, host_le, log, loaded >>

(* ------------------------ smi2021_bootloader_probe --------------------- *)

\* The USB core calls probe for an unbound interface.
Attach ==
    /\ pc = "idle"
    /\ ~bound
    /\ firmwares + NumFw <= MaxCell
    /\ pc' = "probe"
    /\ UNCHANGED << firmware_version, found, firmware, firmwares, images,
                    bound, i, fw, ci, rc, chunk, caller, host_le, log, loaded >>

\* request_firmware returns 0: the image is stored at firmware[firmwares + 1].
ProbeFound ==
    /\ pc = "probe"
    /\ i < NumFw
    /\ \E h \in Handles : images[h].st = "none"
    /\ \E size \in FirmwareSizes :
         images' = [images EXCEPT ![NewImage] = [size |-> size, st |-> "live"]]
    /\ firmware' = [firmware EXCEPT ![NextSlot] = NewImage]
    /\ firmwares' = firmwares + 1
    /\ found' = [found EXCEPT ![i] = firmwares + 1]
    /\ loaded' = [loaded EXCEPT ![i] = NewImage]
    /\ rc' = 0
    /\ i' = i + 1
    /\ UNCHANGED << firmware_version, pc, bound, fw, ci, chunk, caller,
                    host_le, log >>

\* request_firmware returns -ENOENT (and leaves NULL in the cell).
ProbeNotFound ==
    /\ pc = "probe"
    /\ i < NumFw
    /\ firmware' = [firmware EXCEPT ![NextSlot] = NULL]
    /\ found' = [found EXCEPT ![i] = -1]
    /\ rc' = -ENOENT
    /\ i' = i + 1
    /\ UNCHANGED << firmware_version, firmwares, images, pc, bound, fw, ci,
                    chunk, caller, host_le, log, loaded >>

\* Variant of ProbeFatal: the error is treated like -ENOENT and the loop
\* goes on with the next descriptor.
ProbeFatalContinues ==
    /\ pc = "probe"
    /\ i < NumFw
    /\ firmware' = [firmware EXCEPT ![NextSlot] = NULL]
    /\ found' = [found EXCEPT ![i] = -1]
    /\ \E e \in LoaderErrors : rc' = e
    /\ i' = i + 1
    /\ UNCHANGED << firmware_version, firmwares, images, pc, bound, fw, ci,
                    chunk, caller, host_le, log, loaded >>

\* request_firmware returns another error: goto err_out.
ProbeFatal ==
    /\ pc = "probe"
    /\ i < NumFw
    /\ firmware' = [firmware EXCEPT ![NextSlot] = NULL]
    /\ \E e \in LoaderErrors : rc' = e
    /\ pc' = "probe_ret"
    /\ UNCHANGED << firmware_version, found, firmwares, images, bound, i, fw,
                    ci, chunk, caller, host_le, log, loaded >>

\* The store through &firmware[firmwares + 1] lies behind the array: the
\* kernel may fault on it instead of completing it.
ProbeOverrunFault ==
    /\ pc = "probe"
    /\ i < NumFw
    /\ NextSlot >= NumFw
    /\ pc' = "fault"
    /\ UNCHANGED << firmware_version, found, firmware, firmwares, images,
                    bound, i, fw, ci, rc, chunk, caller, host_le, log, loaded >>

\* firmwares < 0: goto no_dev.
ProbeNoDev ==
    /\ pc = "probe"
    /\ i = NumFw
    /\ firmwares < 0
    /\ rc' = -ENODEV
    /\ pc' = "probe_ret"
    /\ UNCHANGED << firmware_version, found, firmware, firmwares, images,
                    bound, i, fw, ci, chunk, caller, host_le, log, loaded >>

\* firmwares == 0: smi2021_load_firmware(udev, firmware[0]).
ProbeLoadOne ==
    /\ pc = "probe"
    /\ i = NumFw
    /\ firmwares = 0
    /\ fw' = firmware[0]
    /\ caller' = "probe"
    /\ rc' = 0
    /\ pc' = "lf_entry"
    /\ UNCHANGED << firmware_version, found, firmware, firmwares, images,
                    bound, i, ci, chunk, host_le, log, loaded >>

(* ------------------------ smi2021_choose_firmware ---------------------- *)

\* Variant of ChooseMatches: firmware_version is not compared.
ChooseMatchesAnyFound == { j \in FwIndex : found[j] >= 0 }

\* The descriptors the loop of smi2021_choose_firmware accepts.
ChooseMatches ==
    { j \in FwIndex : firmware_version = FwId(j) /\ found[j] >= 0 }

\* The first of them, at which the loop returns.
ChooseFirst == CHOOSE j \in ChooseMatches : \A k \in ChooseMatches : j <= k

\* Variant of ChosenSlot: the table is indexed by the descriptor's position.
ChosenSlotByPosition == ChooseFirst

\* The cell it hands to smi2021_load_firmware: firmware[found].
ChosenSlot == found[ChooseFirst]

\* firmwares > 0: smi2021_choose_firmware(udev).
ChooseFirmware ==
    /\ pc = "probe"
    /\ i = NumFw
    /\ firmwares > 0
    /\ IF ChooseMatches # {}
       THEN /\ fw' = firmware[ChosenSlot]
            /\ caller' = "choose"
            /\ rc' = 0
            /\ pc' = "lf_entry"
       ELSE /\ rc' = 0
            /\ pc' = "probe_ret"
            /\ UNCHANGED << fw, caller >>
    /\ UNCHANGED << firmware_version, found, firmware, firmwares, images,
                    bound, i, ci, chunk, host_le, log, loaded >>

(* ------------------------- smi2021_load_firmware ----------------------- *)

\* kzalloc fails: chunk[0] = 0x05 is a store through NULL.
LoadAllocFail ==
    /\ pc = "lf_entry"
    /\ pc' = "fault"
    /\ UNCHANGED << firmware_version, found, firmware, firmwares, images,
                    bound, i, fw, ci, rc, chunk, caller, host_le, log, loaded >>

\* Variant of SizeValid: the size is only required to reach one chunk.
SizeValidAtLeastOne(h) == FwSize(h) >= FIRMWARE_CHUNK_SIZE

\* The image passes the checks before the first transfer.
SizeValid(h) == FwSize(h) % FIRMWARE_CHUNK_SIZE = 0

\* Allocation of chunk, header bytes, NULL and size checks.
LoadCheck ==
    /\ pc = "lf_entry"
    /\ chunk' = << 5, 255 >> \o [k \in 1 .. FIRMWARE_CHUNK_SIZE |-> 0]
    /\ IF fw = NULL \/ ~SizeValid(fw)
       THEN /\ rc' = -ENODEV
            /\ pc' = "lf_ret"
       ELSE /\ rc' = 0
            /\ pc' = "lf_handshake"
    /\ UNCHANGED << firmware_version, found, firmware, firmwares, images,
                    bound, i, fw, ci, caller, host_le, log, loaded >>

\* Variant of HandshakeOk: ack compared without the byte swap.
HandshakeOkNoSwap(ack) == ack = ReadyCode

\* The device is ready: __cpu_to_be16(ack) == 0x0107.
HandshakeOk(ack) == cpu_to_be16(ack) = ReadyCode

\* The handshake read and the two tests of its result.
LoadHandshake ==
    /\ pc = "lf_handshake"
    /\ \/ \E e \in UsbErrors :
            /\ log' = Append(log, Transfer("in", 1, << >>, e))
            /\ rc' = e
            /\ pc' = "lf_ret"
            /\ ci' = ci
       \/ \E reply \in HandshakeReplies :
            /\ log' = Append(log, Transfer("in", 1, reply, Len(reply)))
            /\ rc' = Len(reply)
            /\ IF HandshakeOk(AckAfter(reply))
               THEN pc' = "lf_chunk" /\ ci' = 0
               ELSE pc' = "lf_ret" /\ ci' = ci
    /\ UNCHANGED << firmware_version, found, firmware, firmwares, images,
                    bound, i, fw, chunk, caller, host_le, loaded >>

\* Variant of ChunkCount: the size divided by the size of the buffer.
ChunkCountByBuffer(h) ==
    FwSize(h) \div (FIRMWARE_CHUNK_SIZE + FIRMWARE_HEADER_SIZE)

\* Number of passes of the chunk loop: firmware->size / FIRMWARE_CHUNK_SIZE.
ChunkCount(h) == FwSize(h) \div FIRMWARE_CHUNK_SIZE

\* Variant of ChunkOffset: the offset advances by one byte per pass.
ChunkOffsetByOne(n) == n

\* Offset into firmware->data the memcpy of pass n reads from.
ChunkOffset(n) == n * FIRMWARE_CHUNK_SIZE

\* chunk after memcpy(chunk + FIRMWARE_HEADER_SIZE, data + offset, 62).
FillChunk(buf, h, n) ==
    [k \in 1 .. (FIRMWARE_CHUNK_SIZE + FIRMWARE_HEADER_SIZE) |->
        IF k <= FIRMWARE_HEADER_SIZE
        THEN buf[k]
        ELSE FwData(h)[ChunkOffset(n) + (k - FIRMWARE_HEADER_SIZE)]]

\* Variant of AfterChunk: the result of the write is not tested.
AfterChunkUntested(result) == "lf_chunk"

\* Where the chunk loop goes after a write that returned result.
AfterChunk(result) == IF result < 0 THEN "lf_ret" ELSE "lf_chunk"

\* One pass of the chunk loop: memcpy, control write, test of rc.
LoadChunk ==
    /\ pc = "lf_chunk"
    /\ ci < ChunkCount(fw)
    /\ chunk' = FillChunk(chunk, fw, ci)
    /\ \E result \in UsbErrors \cup {FIRMWARE_CHUNK_SIZE + FIRMWARE_HEADER_SIZE} :
         /\ log' = Append(log, Transfer("out", 5, chunk', result))
         /\ rc' = result
         /\ pc' = AfterChunk(result)
         /\ ci' = IF result < 0 THEN ci ELSE ci + 1
    /\ UNCHANGED << firmware_version, found, firmware, firmwares, images,
                    bound, i, fw, caller, host_le, loaded >>

\* After the loop: the completion write of ack = __cpu_to_le16(0x0007).
LoadAck ==
    /\ pc = "lf_chunk"
    /\ ~(ci < ChunkCount(fw))
    /\ \E result \in UsbErrors \cup {2} :
         /\ log' = Append(log, Transfer("out", 7, BytesOf(cpu_to_le16(7)), result))
         /\ rc' = IF result < 0 THEN result ELSE 0
    /\ pc' = "lf_ret"
    /\ UNCHANGED << firmware_version, found, firmware, firmwares, images,
                    bound, i, fw, ci, chunk, caller, host_le, loaded >>

\* What probe returns once smi2021_load_firmware has returned r: the call
\* at firmwares == 0 tests rc < 0, the call through
\* smi2021_choose_firmware drops the result.
ProbeResult(from, r) == IF from = "probe" /\ r < 0 THEN r ELSE 0

\* smi2021_load_firmware returns rc to its caller.
LoadReturn ==
    /\ pc = "lf_ret"
    /\ rc' = ProbeResult(caller, rc)
    /\ pc' = "probe_ret"
    /\ UNCHANGED << firmware_version, found, firmware, firmwares, images,
                    bound, i, fw, ci, chunk, caller, host_le, log, loaded >>

\* probe returns rc to the USB core, which binds the interface on 0; the
\* locals of the call and the record of the attach end with it.
ProbeReturn ==
    /\ pc = "probe_ret"
    /\ bound' = (rc = 0)
    /\ pc' = "idle"
    /\ i' = 0
    /\ rc' = 0
    /\ fw' = NULL
    /\ ci' = 0
    /\ chunk' = << >>
    /\ caller' = "none"
    /\ log' = << >>
    /\ loaded' = [j \in FwIndex |-> NULL]
    /\ UNCHANGED << firmware_version, found, firmware, firmwares, images,
                    host_le >>

(* --------------------- smi2021_bootloader_disconnect ------------------- *)

\* Variant of DisconnectPass: the image is released, but the cell and the
\* descriptor are left as they are.
DisconnectPassReleaseOnly(s, j) ==
    IF s.found[j] >= 0
    THEN [s EXCEPT !.images = Release(s.images, s.firmware[s.found[j]])]
    ELSE s

\* One pass of the loop of disconnect on s = [found, firmware, images].
DisconnectPass(s, j) ==
    IF s.found[j] >= 0
    THEN [ found    |-> [s.found EXCEPT ![j] = -1],
           firmware |-> [s.firmware EXCEPT ![s.found[j]] = NULL],
           images   |-> Release(s.images, s.firmware[s.found[j]]) ]
    ELSE s

\* The whole loop, passes 0, 1, 2 in order, on s = [found, firmware, images].
DisconnectFrom(s) ==
    DisconnectPass(DisconnectPass(DisconnectPass(s, 0), 1), 2)

\* The loop on the current state.
DisconnectLoop ==
    DisconnectFrom([found |-> found, firmware |-> firmware, images |-> images])

\* Variant of Disconnect: every referenced image is released, but the table,
\* the descriptors and the count are left as they are.
DisconnectReleaseOnly ==
    /\ pc = "idle"
    /\ bound
    /\ images' = DisconnectPassReleaseOnly(DisconnectPassReleaseOnly(
                     DisconnectPassReleaseOnly(
                         [found |-> found, firmware |-> firmware,
                          images |-> images], 0), 1), 2).images
    /\ bound' = FALSE
    /\ UNCHANGED << firmware_version, found, firmware, firmwares, pc, i, fw,
                    ci, rc, chunk, caller, host_le, log, loaded >>

\* The USB core calls disconnect for a bound interface.
Disconnect ==
    /\ pc = "idle"
    /\ bound
    /\ found' = DisconnectLoop.found
    /\ firmware' = DisconnectLoop.firmware
    /\ images' = DisconnectLoop.images
    /\ firmwares' = -1
    /\ bound' = FALSE
    /\ UNCHANGED << firmware_version, pc, i, fw, ci, rc, chunk, caller,
                    host_le, log, loaded >>

(* ------------------------------ the system ----------------------------- *)

Next ==
    \/ SetFirmwareVersion
    \/ Attach
    \/ ProbeFound
    \/ ProbeNotFound
    \/ ProbeFatal
    \/ ProbeOverrunFault
    \/ ProbeNoDev
    \/ ProbeLoadOne
    \/ ChooseFirmware
    \/ LoadAllocFail
    \/ LoadCheck
    \/ LoadHandshake
    \/ LoadChunk
    \/ LoadAck
    \/ LoadReturn
    \/ ProbeReturn
    \/ Disconnect

Spec == Init /\ [][Next]_vars

(* ----------------------- a single upload, any image -------------------- *)

\* The state in which probe, on a fresh catalog, has found the first
\* variant alone and calls smi2021_load_firmware(udev, firmware[0]); the
\* image has any of the sizes UploadSizes.
InitUpload ==
    /\ firmware_version = 0
    /\ found = [j \in FwIndex |-> IF j = 0 THEN 0 ELSE -1]
    /\ firmware = [c \in Cells |-> IF c = 0 THEN 1 ELSE NULL]
    /\ firmwares = 0
    /\ \E size \in UploadSizes :
         images = [h \in Handles |-> IF h = 1 THEN [size |-> size, st |-> "live"]
                                              ELSE [size |-> 0, st |-> "none"]]
    /\ pc = "lf_entry"
    /\ bound = FALSE
    /\ i = NumFw
    /\ fw = 1
    /\ ci = 0
    /\ rc = 0
    /\ chunk = << >>
    /\ caller = "probe"
    /\ host_le \in BOOLEAN
    /\ log = << >>
    /\ loaded = [j \in FwIndex |-> IF j = 0 THEN 1 ELSE NULL]

NextUpload ==
    \/ LoadAllocFail
    \/ LoadCheck
    \/ LoadHandshake
    \/ LoadChunk
    \/ LoadAck
    \/ LoadReturn

SpecUpload == InitUpload /\ [][NextUpload]_vars

(* ------------------------------ properties ----------------------------- *)

\* The big-endian 16-bit value of two bytes.
BigEndian16(data) == 256 * data[1] + data[2]

IsHandshakeRead(t) ==
    t.dir = "in" /\ t.request = 1 /\ t.value = 1 /\ t.index = 0

IsChunkWrite(t) ==
    t.dir = "out" /\ t.request = 1 /\ t.value = 5 /\ t.index = 0

IsCompletionWrite(t) ==
    t.dir = "out" /\ t.request = 1 /\ t.value = 7 /\ t.index = 0

\* The handshake read t failed: a transport error, or two bytes that are
\* not 0x0107 read big-endian.
HandshakeRefused(t) ==
    \/ t.rc < 0
    \/ Len(t.data) = 2 /\ BigEndian16(t.data) # 263

\* The handshake read t returned two bytes that are 0x0107 read big-endian.
HandshakeReady(t) ==
    t.rc >= 0 /\ Len(t.data) = 2 /\ BigEndian16(t.data) = 263

\* Bytes [62 * n, 62 * n + 61] of the image h.
ImageSlice(h, n) == [b \in 1 .. 62 |-> FwByte(h, 62 * n + b - 1)]

\* The 62 bytes behind the 2-byte header of a chunk buffer.
Payload(t) == SubSeq(t.data, 3, Len(t.data))

\* C1: when the handshake read of an upload returns a transport error or
\* two bytes that are not 0x0107 read big-endian, the handshake read stays
\* the only control transfer of the upload: no chunk write and no
\* completion write follows it.
C1_HandshakeFailureNoWrite ==
    (Len(log) >= 1 /\ IsHandshakeRead(log[1]) /\ HandshakeRefused(log[1]))
        => Len(log) = 1

\* C1 witness: an upload has returned after the two-byte handshake reply
\* 0x07 0x01, which is 0x0107 only when read little-endian.
C1_Witness ==
    /\ pc = "lf_ret"
    /\ Len(log) = 1
    /\ IsHandshakeRead(log[1])
    /\ log[1].rc = 2
    /\ log[1].data = << 7, 1 >>

\* C2: for an image of 62 * N bytes (N >= 1), when the handshake read
\* returns 0x0107 and every transfer succeeds, the transfers issued are, in
\* this order, the handshake read, the chunk writes of slices 0 .. N-1 and
\* one completion write; when the upload returns nothing else was issued.
C2_TransferSequence ==
    LET N == FwSize(fw) \div 62 IN
    ( /\ fw # NULL
      /\ FwSize(fw) = 62 * N
      /\ N >= 1
      /\ Len(log) >= 1
      /\ HandshakeReady(log[1])
      /\ \A p \in 1 .. Len(log) : log[p].rc >= 0 )
    => /\ Len(log) <= N + 2
       /\ IsHandshakeRead(log[1])
       /\ \A p \in 2 .. Len(log) :
            IF p <= N + 1
            THEN IsChunkWrite(log[p]) /\ Payload(log[p]) = ImageSlice(fw, p - 2)
            ELSE IsCompletionWrite(log[p]) /\ log[p].data = << 7, 0 >>
       /\ pc = "lf_ret" => Len(log) = N + 2 /\ rc = 0

\* C2 witness: an upload of the largest image has returned 0 after the
\* handshake, MaxChunks chunk writes and the completion write.
C2_Witness ==
    /\ pc = "lf_ret"
    /\ rc = 0
    /\ FwSize(fw) = 62 * MaxChunks
    /\ Len(log) = MaxChunks + 2
    /\ IsCompletionWrite(log[MaxChunks + 2])

\* The payloads of the chunk writes log[2 .. n], in the order of issue.
RECURSIVE PayloadsUpTo(_)
PayloadsUpTo(n) ==
    IF n < 2 THEN << >> ELSE PayloadsUpTo(n - 1) \o Payload(log[n])

\* C3: the i-th chunk write of an upload carries a 64-byte buffer: 0x05,
\* 0xff, then bytes [62 * i, 62 * i + 61] of the image; the payloads of the
\* chunk writes of a successful upload, in order, are the image.
C3_ChunkLayout ==
    /\ \A p \in 2 .. Len(log) :
         IsChunkWrite(log[p]) =>
            /\ Len(log[p].data) = 64
            /\ log[p].data[1] = 5
            /\ log[p].data[2] = 255
            /\ \A b \in 1 .. 62 :
                 log[p].data[2 + b] = FwByte(fw, 62 * (p - 2) + (b - 1))
    /\ (pc = "lf_ret" /\ rc = 0 /\ Len(log) >= 2 /\ IsCompletionWrite(log[Len(log)]))
         => PayloadsUpTo(Len(log) - 1) = [k \in 1 .. FwSize(fw) |-> FwByte(fw, k - 1)]

\* C3 witness: a successful upload whose second chunk write has been
\* issued has returned.
C3_Witness ==
    /\ pc = "lf_ret"
    /\ rc = 0
    /\ Len(log) >= 4
    /\ IsChunkWrite(log[3])
    /\ IsCompletionWrite(log[Len(log)])

\* C4: for an image whose length is no multiple of 62, upload issues no
\* control transfer at all and what it returns is an error.
C4_WrongSizeNoTransfer ==
    (caller # "none" /\ fw # NULL /\ FwSize(fw) % 62 # 0)
        => /\ log = << >>
           /\ pc \notin {"lf_handshake", "lf_chunk"}
           /\ pc = "lf_ret" => rc < 0

\* C4 witness: upload has returned for an image one byte longer than a
\* chunk.
C4_Witness ==
    /\ pc = "lf_ret"
    /\ fw # NULL
    /\ FwSize(fw) = 63
    /\ rc = -ENODEV

\* C5 (as claimed): when the handshake read completes without transport
\* error but its value is not 0x0107, upload returns a negative result.
C5_RefusedHandshakeIsError ==
    ( /\ pc = "lf_ret"
      /\ Len(log) = 1
      /\ IsHandshakeRead(log[1])
      /\ log[1].rc >= 0
      /\ Len(log[1].data) = 2
      /\ BigEndian16(log[1].data) # 263 )
    => rc < 0

\* C6: when a chunk write returns a transport error, it is the last
\* transfer of the upload (no later chunk, no retry, no completion write)
\* and the upload returns that error.
C6_ChunkErrorStops ==
    \A p \in 1 .. Len(log) :
        (IsChunkWrite(log[p]) /\ log[p].rc < 0)
            => /\ p = Len(log)
               /\ pc \in {"lf_ret", "probe_ret"}
               /\ pc = "lf_ret" => rc = log[p].rc

\* C6 witness: the second chunk write failed and the upload has returned.
C6_Witness ==
    /\ pc = "lf_ret"
    /\ Len(log) = 3
    /\ IsChunkWrite(log[3])
    /\ log[3].rc < 0
    /\ log[2].rc >= 0

\* The descriptors whose image request_firmware returned in this attach.
FoundNow == { j \in FwIndex : loaded[j] # NULL }

\* The probe loop of this attach has ended without a fatal loader error.
ProbeComplete == pc # "probe" /\ i = NumFw

\* C7 (as claimed): in an attach during which exactly one variant resolves
\* and the loader reports no fatal error, the upload is attempted with the
\* image loaded for that variant in this attach, whatever firmware_version.
C7_SingleVariantUploaded ==
    (ProbeComplete /\ Cardinality(FoundNow) = 1)
        => /\ caller # "none"
           /\ \A j \in FoundNow : fw = loaded[j]

C9_AmbiguousNoUpload ==
    ( /\ ProbeComplete
      /\ Cardinality(FoundNow) >= 2
      /\ \A j \in FoundNow : FwId(j) # firmware_version )
    => /\ caller = "none"
       /\ log = << >>
       /\ pc = "probe_ret"

\* C9 witness: two variants were found, firmware_version names the known
\* variant that was not, and probe returns.
C9_Witness ==
    /\ pc = "probe_ret"
    /\ i = NumFw
    /\ FoundNow = {1, 2}
    /\ firmware_version = 60
    /\ caller = "none"

\* C10 (as claimed): in an attach during which every load reports
\* not-found, no upload is attempted and no control transfer is issued.
C10_NothingFoundNoUpload ==
    (ProbeComplete /\ FoundNow = {})
        => /\ caller = "none"
           /\ log = << >>

\* An upload was attempted in this attach and failed: its handshake read
\* was refused, or its last transfer returned a transport error.
UploadFailed ==
    /\ caller # "none"
    /\ Len(log) >= 1
    /\ \/ Len(log) = 1 /\ HandshakeRefused(log[1])
       \/ log[Len(log)].rc < 0

\* C11 (as claimed): when the upload attempted in an attach fails at the
\* handshake, a chunk write or the completion write, probe returns an
\* error, whether the image was chosen automatically or by preference.
C11_UploadFailureFailsAttach ==
    (pc = "probe_ret" /\ UploadFailed) => rc < 0

\* C12: when request_firmware reports an error other than -ENOENT for the
\* i-th descriptor, the probe ends at once: the step that receives the error
\* leaves the loop with i, found and firmwares as they were, no later
\* descriptor is probed, no upload is called, no control transfer is issued,
\* and probe returns that error, on which the interface is not bound.
C12_FatalLoadAborts ==
    /\ []( (pc = "probe_ret" /\ rc \in LoaderErrors)
            => /\ i < NumFw
               /\ \A j \in FwIndex : j >= i => loaded[j] = NULL
               /\ caller = "none"
               /\ log = << >> )
    /\ [][ /\ (pc = "probe" /\ rc' \in LoaderErrors)
              => /\ pc' = "probe_ret"
                 /\ i' = i
                 /\ found' = found
                 /\ firmwares' = firmwares
                 /\ loaded' = loaded
           /\ (pc = "probe_ret" /\ rc \in LoaderErrors /\ pc' = "idle")
              => ~bound' ]_vars

\* C12 witness: the first variant was found, the load of the second
\* reported -ENOMEM, and probe returns it.
C12_Witness ==
    /\ pc = "probe_ret"
    /\ rc = -12
    /\ i = 1
    /\ loaded[0] # NULL

\* A step of the USB core calling disconnect.
DetachStep == bound /\ ~bound'

\* C13 (as claimed): after every detach every image obtained from the
\* loader so far has been released, every descriptor is absent and the
\* found-count is "none".
C13_DetachReleasesAll ==
    [][ DetachStep
          => /\ \A h \in Handles : images'[h].st # "live"
             /\ \A j \in FwIndex : found'[j] = -1
             /\ firmwares' = -1 ]_vars

\* C14: a second run of disconnect directly after a first releases no
\* image and leaves descriptors, table and found-count as the first left
\* them; a run of disconnect while no loaded image exists releases none.
C14_DisconnectIdempotent ==
    /\ []( (\A h \in Handles : images[h].st # "live")
              => DisconnectLoop.images = images )
    /\ [][ DetachStep
             => LET s == [ found |-> found', firmware |-> firmware',
                           images |-> images' ]
                IN  /\ DisconnectFrom(s) = s
                    /\ firmwares' = -1 ]_vars

\* C14 witness: a disconnect has released an image: an image is released,
\* every descriptor is absent and the interface is unbound.
C14_Witness ==
    /\ pc = "idle"
    /\ ~bound
    /\ firmwares = -1
    /\ \A j \in FwIndex : found[j] = -1
    /\ \E h \in Handles : images[h].st = "released"

\* The probe of this attach started with the found-count at "none", as a
\* fresh or torn-down catalog has it: the count has grown by one per image
\* found, from -1.
StartedFromNone == firmwares = Cardinality(FoundNow) - 1

\* C15: after a probe that started from a fresh or torn-down catalog and
\* ended without fatal error, the found descriptors hold the slots
\* 0, 1, ..., k-1 in the order they were found, every other descriptor is
\* absent, and the table entry at the slot of a found descriptor is the
\* image the loader returned for it.
C15_SlotsInOrderFound ==
    (ProbeComplete /\ StartedFromNone)
        => \A j \in FwIndex :
              IF loaded[j] # NULL
              THEN /\ found[j] = Cardinality({ k \in FoundNow : k < j })
                   /\ firmware[found[j]] = loaded[j]
              ELSE found[j] = -1

\* C15 witness: from a catalog at "none" the first and the third variant
\* were found, the second was not.
C15_Witness ==
    /\ ProbeComplete
    /\ StartedFromNone
    /\ FoundNow = {0, 2}
    /\ found[2] = 1

\* C16 (as claimed): the found-count stays within -1 .. 2, and the cell
\* the probe hands to request_firmware, firmware[firmwares + 1], is always
\* one of the three cells of the table.
C16_CountWithinTable ==
    /\ firmwares \in -1 .. (NumFw - 1)
    /\ (pc = "probe" /\ i < NumFw) => firmwares + 1 \in 0 .. (NumFw - 1)

\* C17 (as claimed): when probe returns an error, no loaded image is held
\* and the found-count is "none".
C17_FailedAttachHoldsNothing ==
    (pc = "probe_ret" /\ rc < 0)
        => /\ firmwares = -1
           /\ \A h \in Handles : images[h].st # "live"

\* C18 (as claimed): an attach that finds two or more variants of which
\* none matches firmware_version returns 0; an attach that finds no variant
\* returns -ENODEV.
C18_AmbiguousBindsNoneFails ==
    (pc = "probe_ret" /\ i = NumFw)
        => /\ ( /\ Cardinality(FoundNow) >= 2
                /\ \A j \in FoundNow : FwId(j) # firmware_version )
              => rc = 0
           /\ FoundNow = {} => rc = -19

\* C19 (as claimed): between events, every descriptor with found >= 0
\* refers to a table entry that holds a live image, and no two descriptors
\* refer to the same slot.
C19_DescriptorsReferToLiveImages ==
    pc = "idle"
        => /\ \A j \in FwIndex :
                found[j] >= 0
                  => /\ firmware[found[j]] # NULL
                     /\ images[firmware[found[j]]].st = "live"
           /\ \A j, k \in FwIndex :
                (j # k /\ found[j] >= 0) => found[j] # found[k]

====
